---- MODULE Spec2Model ----
(***************************************************************************)
(* Devfile component lifecycle verbs of odo (pkg/odo/cli/component):       *)
(* DevfilePush, DevfileComponentLog, DevfileComponentDelete,               *)
(* RunTestCommand and DevfileComponentExec, with every call they make on   *)
(* their collaborators recorded in order.                                  *)
(*                                                                         *)
(* One behaviour is one CLI process running one verb.  A collaborator     *)
(* call (parser, validator, adapter, environment store) is one step whose  *)
(* result is drawn from a small set.                                       *)
(***************************************************************************)
EXTENDS Integers, Sequences, FiniteSets, TLC

VARIABLES
    isJSON,            \* log.IsJSON(): structured (machine readable) output
    pushTargetDocker,  \* pushtarget.IsPushTargetDocker()
    verb,              \* the verb this process runs
    pc,                \* position inside the verb's function
    opts,              \* the receiver: PushOptions / LogOptions / DeleteOptions / TestOptions / ExecOptions
    devObj,            \* the parsed devfile: its set of commands
    componentName,     \* EnvSpecificInfo.GetName()
    platformContext,   \* the platform context handed to NewComponentAdapter
    pushParams,        \* common.PushParameters built by devfilePushInner
    localURLs,         \* EnvSpecificInfo.ListURLs()
    command,           \* the devfile command resolved by DevfileComponentLog
    err,               \* the function's err variable
    trace,             \* every collaborator call and log line, in order
    ret,               \* the error returned to the caller (Nil: nil)
    exitCode,          \* status given to os.Exit, -1 while the process lives
    runMode            \* the run mode persisted in the environment store

vars == <<isJSON, pushTargetDocker, verb, pc, opts, devObj, componentName,
          platformContext, pushParams, localURLs, command, err, trace, ret,
          exitCode, runMode>>

----------------------------------------------------------------------------
(* Bounds *)

\* longest list ListURLs returns
MaxURLs == 2
\* longest argument vector given to exec
MaxArgs == 2

----------------------------------------------------------------------------
(* Values *)

\* An error is the chain of its messages, outermost first; nil is the empty chain.
Nil == <<>>

\* errors.Wrap(e, msg)
Wrap(e, msg) == <<msg>> \o e

\* errors.Errorf("Failed to start component with name %s. Error: %v", name, e)
FailedToStart(name, e) == <<"Failed to start component with name", name>> \o e

\* errors.Errorf("no debug command found in devfile, please run \"odo log\" for run command logs")
NoDebugCommand == <<"no debug command found in devfile, please run \"odo log\" for run command logs">>

\* Command names are strings of ASCII codes, so that letter case is data.
Str_empty == <<>>
Str_build == <<98, 117, 105, 108, 100>>
Str_Build == <<66, 117, 105, 108, 100>>
Str_run   == <<114, 117, 110>>
Str_RUN   == <<82, 85, 78>>
Str_debug == <<100, 101, 98, 117, 103>>
Str_Debug == <<68, 101, 98, 117, 103>>
Str_dbg   == <<100, 98, 103>>
Str_test  == <<116, 101, 115, 116>>
Str_Test  == <<84, 101, 115, 116>>

\* unicode.ToLower on one ASCII code
LowerChar(c) == IF c >= 65 /\ c <= 90 THEN c + 32 ELSE c

\* ToLower that leaves the name as typed
ToLower_Identity(s) == s

\* strings.ToLower
ToLower(s) == [i \in 1..Len(s) |-> LowerChar(s[i])]

\* envinfo.Run, envinfo.Debug
Run == "run"
Debug == "debug"

\* localConfigProvider URL kinds; DOCKER is the local container engine's
DOCKER == "docker"
ROUTE == "route"
URLKinds == {DOCKER, ROUTE}

\* the lists ListURLs can return
RECURSIVE SeqsUpTo(_, _)
SeqsUpTo(S, n) ==
    IF n = 0 THEN {<<>>}
    ELSE LET shorter == SeqsUpTo(S, n - 1)
         IN  shorter \cup {Append(s, x) : s \in {t \in shorter : Len(t) = n - 1}, x \in S}

LocalURLs == {[Kind |-> k] : k \in URLKinds}
URLLists == SeqsUpTo(LocalURLs, MaxURLs)

\* devfile commands: a name, the kind of its group, and whether it is the group's default
BuildKind == "build"
RunKind == "run"
DebugKind == "debug"
Cmd(name, kind, isDefault) == [Id |-> name, Kind |-> kind, IsDefault |-> isDefault]
EmptyCommand == Cmd(Str_empty, "", FALSE)

AllCommands ==
    { Cmd(Str_build, BuildKind, TRUE),
      Cmd(Str_run, RunKind, TRUE),
      Cmd(Str_debug, DebugKind, FALSE),
      Cmd(Str_dbg, DebugKind, FALSE) }

\* a validated devfile has at most one default command per kind
ValidDevfile(cmds) ==
    \A k \in {BuildKind, RunKind, DebugKind} :
        Cardinality({c \in cmds : c.Kind = k /\ c.IsDefault}) <= 1

Devfiles == {d \in SUBSET AllCommands : ValidDevfile(d)}

ComponentNames == {"frontend"}
Namespaces == {"dev", "prod"}
Applications == {"app"}
Contexts == {"./"}

\* one entry of the trace: the callee, its arguments, the error it returned
Call(fn, arg, res) == [fn |-> fn, arg |-> arg, res |-> res]
NoArg == [none |-> TRUE]

\* the entries of the trace that call fn
CallsOf(fn) == {i \in 1..Len(trace) : trace[i].fn = fn}
Count(fn) == Cardinality(CallsOf(fn))

----------------------------------------------------------------------------
(* Start of the process *)

Init ==
    /\ isJSON \in BOOLEAN
    /\ pushTargetDocker \in BOOLEAN
    /\ verb = "none"
    /\ pc = "idle"
    /\ opts = NoArg
    /\ devObj = {}
    /\ componentName = ""
    /\ platformContext = NoArg
    /\ pushParams = NoArg
    /\ localURLs = <<>>
    /\ command = EmptyCommand
    /\ err = Nil
    /\ trace = <<>>
    /\ ret = Nil
    /\ exitCode = -1
    /\ runMode = ""

----------------------------------------------------------------------------
(* Results the collaborators can give *)

ParseErrors == {<<"failed to parse devfile">>}
ValidateErrors == {<<"devfile data is invalid">>}
AbsPathErrors == {<<"cannot resolve path">>}
IgnoreErrors == {<<"cannot read .odoignore">>}
AdapterErrors == {<<"unable to create adapter">>}
ListURLErrors == {<<"cannot read env.yaml">>}
PushErrors == {<<"sync failed">>}
StoreErrors == {<<"cannot write env.yaml">>}
VerbErrors == {<<"command failed">>, <<"pod not found">>}
DisplayErrors == {<<"broken pipe">>}
SourcePaths == {"/home/user/project"}
IgnoreLists == {<<".git">>}
DebugPorts == {5858}

----------------------------------------------------------------------------
(* odo push: DevfilePush and devfilePushInner *)

PushOptionsSet ==
    [ debugRun : BOOLEAN,
      forceBuild : BOOLEAN,
      show : {TRUE},
      devfileBuildCommand : {Str_empty, Str_build, Str_Build},
      devfileRunCommand : {Str_empty, Str_RUN},
      devfileDebugCommand : {Str_empty, Str_Debug},
      componentContext : Contexts,
      Application : Applications,
      Namespace : Namespaces,
      sourcePath : {""},
      ignores : {<<>>} ]

StartPush ==
    /\ pc = "idle"
    /\ verb' = "push"
    /\ \E po \in PushOptionsSet : opts' = po
    /\ pc' = "push_parse"
    /\ UNCHANGED <<isJSON, pushTargetDocker, devObj, componentName, platformContext,
                   pushParams, localURLs, command, err, trace, ret, exitCode, runMode>>

\* devfile.ParseAndValidate(po.DevfilePath)
PushParseAndValidate ==
    /\ pc = "push_parse"
    /\ \/ \E e \in ParseErrors :
            /\ trace' = Append(trace, Call("ParseAndValidate", NoArg, e))
            /\ err' = e
            /\ pc' = "push_inner_done"
            /\ UNCHANGED devObj
       \/ \E d \in Devfiles :
            /\ trace' = Append(trace, Call("ParseAndValidate", NoArg, Nil))
            /\ devObj' = d
            /\ pc' = "push_validate"
            /\ UNCHANGED err
    /\ UNCHANGED <<isJSON, pushTargetDocker, verb, opts, componentName, platformContext,
                   pushParams, localURLs, command, ret, exitCode, runMode>>

\* validate.ValidateDevfileData(devObj.Data), then EnvSpecificInfo.GetName()
PushValidateDevfileData ==
    /\ pc = "push_validate"
    /\ \/ \E e \in ValidateErrors :
            /\ trace' = Append(trace, Call("ValidateDevfileData", [devObj |-> devObj], e))
            /\ err' = e
            /\ pc' = "push_inner_done"
            /\ UNCHANGED componentName
       \/ \E n \in ComponentNames :
            /\ trace' = Append(trace, Call("ValidateDevfileData", [devObj |-> devObj], Nil))
            /\ componentName' = n
            /\ pc' = "push_abspath"
            /\ UNCHANGED err
    /\ UNCHANGED <<isJSON, pushTargetDocker, verb, opts, devObj, platformContext,
                   pushParams, localURLs, command, ret, exitCode, runMode>>

\* po.sourcePath, err = util.GetAbsPath(po.componentContext)
PushGetAbsPath ==
    /\ pc = "push_abspath"
    /\ \/ \E e \in AbsPathErrors :
            /\ trace' = Append(trace, Call("GetAbsPath", [path |-> opts.componentContext], e))
            /\ err' = Wrap(e, "unable to get source path")
            /\ pc' = "push_inner_done"
            /\ UNCHANGED opts
       \/ \E p \in SourcePaths :
            /\ trace' = Append(trace, Call("GetAbsPath", [path |-> opts.componentContext], Nil))
            /\ opts' = [opts EXCEPT !.sourcePath = p]
            /\ pc' = "push_ignore"
            /\ UNCHANGED err
    /\ UNCHANGED <<isJSON, pushTargetDocker, verb, devObj, componentName, platformContext,
                   pushParams, localURLs, command, ret, exitCode, runMode>>

\* genericclioptions.ApplyIgnore(&po.ignores, po.sourcePath)
PushApplyIgnore ==
    /\ pc = "push_ignore"
    /\ \/ \E e \in IgnoreErrors :
            /\ trace' = Append(trace, Call("ApplyIgnore", [sourcePath |-> opts.sourcePath], e))
            /\ err' = Wrap(e, "unable to apply ignore information")
            /\ pc' = "push_inner_done"
            /\ UNCHANGED opts
       \/ \E ig \in IgnoreLists :
            /\ trace' = Append(trace, Call("ApplyIgnore", [sourcePath |-> opts.sourcePath], Nil))
            /\ opts' = [opts EXCEPT !.ignores = ig]
            /\ pc' = "push_adapter"
            /\ UNCHANGED err
    /\ UNCHANGED <<isJSON, pushTargetDocker, verb, devObj, componentName, platformContext,
                   pushParams, localURLs, command, ret, exitCode, runMode>>

\* var platformContext interface{}: nil for the local container engine,
\* kubernetes.KubernetesContext{Namespace: po.KClient.Namespace} otherwise
NilContext == [variant |-> "nil", Namespace |-> ""]
KubernetesContext(ns) == [variant |-> "KubernetesContext", Namespace |-> ns]

PushPlatformContext(isDocker, ns) ==
    IF isDocker THEN NilContext ELSE KubernetesContext(ns)

\* the arguments of adapters.NewComponentAdapter
AdapterArgs(name, context, app, dev, platform) ==
    [componentName |-> name, context |-> context, Application |-> app,
     devObj |-> dev, platformContext |-> platform]

\* PushParameters that fills an empty build or run name with a default name
PushParameters_Defaults(po, name, debugPort) ==
    [ Path |-> po.sourcePath,
      IgnoredFiles |-> po.ignores,
      ForceBuild |-> po.forceBuild,
      Show |-> po.show,
      EnvSpecificInfo |-> [Name |-> name],
      DevfileBuildCmd |-> IF po.devfileBuildCommand = <<>> THEN Str_build
                          ELSE ToLower(po.devfileBuildCommand),
      DevfileRunCmd |-> IF po.devfileRunCommand = <<>> THEN Str_run
                        ELSE ToLower(po.devfileRunCommand),
      DevfileDebugCmd |-> ToLower(po.devfileDebugCommand),
      Debug |-> po.debugRun,
      DebugPort |-> debugPort ]

\* pushParams := common.PushParameters{...}
PushParameters(po, name, debugPort) ==
    [ Path |-> po.sourcePath,
      IgnoredFiles |-> po.ignores,
      ForceBuild |-> po.forceBuild,
      Show |-> po.show,
      EnvSpecificInfo |-> [Name |-> name],
      DevfileBuildCmd |-> ToLower(po.devfileBuildCommand),
      DevfileRunCmd |-> ToLower(po.devfileRunCommand),
      DevfileDebugCmd |-> ToLower(po.devfileDebugCommand),
      Debug |-> po.debugRun,
      DebugPort |-> debugPort ]

\* adapters.NewComponentAdapter(...), then the PushParameters literal
PushNewComponentAdapter ==
    /\ pc = "push_adapter"
    /\ platformContext' = PushPlatformContext(pushTargetDocker, opts.Namespace)
    /\ LET args == AdapterArgs(componentName, opts.componentContext, opts.Application,
                               devObj, platformContext')
       IN  \/ \E e \in AdapterErrors :
                /\ trace' = Append(trace, Call("NewComponentAdapter", args, e))
                /\ err' = e
                /\ pc' = "push_inner_done"
                /\ UNCHANGED pushParams
           \/ \E port \in DebugPorts :
                /\ trace' = Append(trace, Call("NewComponentAdapter", args, Nil))
                /\ pushParams' = PushParameters(opts, componentName, port)
                /\ pc' = "push_listurls"
                /\ UNCHANGED err
    /\ UNCHANGED <<isJSON, pushTargetDocker, verb, opts, devObj, componentName,
                   localURLs, command, ret, exitCode, runMode>>

\* the loop of warnIfURLSInvalid: <<dockerURLExists, kubeURLExists>> after url[1..n]
RECURSIVE URLKindsSeen(_, _)
URLKindsSeen(url, n) ==
    IF n = 0 THEN <<FALSE, FALSE>>
    ELSE LET seen == URLKindsSeen(url, n - 1)
         IN  IF url[n].Kind = DOCKER
             THEN <<TRUE, seen[2]>>
             ELSE <<seen[1], TRUE>>

\* warnIfURLSInvalid that words a single URL in the plural
warnIfURLSInvalid_PluralFromOne(url) ==
    LET seen == URLKindsSeen(url, Len(url))
        urlOutput == IF Len(url) >= 1 THEN "URLs" ELSE "a URL"
    IN  IF pushTargetDocker /\ ~seen[1] /\ seen[2]
        THEN <<Call("log.Warningf", [found |-> urlOutput, definedFor |-> "Kubernetes", noneFor |-> "Docker"], Nil)>>
        ELSE IF ~pushTargetDocker /\ ~seen[2] /\ seen[1]
        THEN <<Call("log.Warningf", [found |-> urlOutput, definedFor |-> "Docker", noneFor |-> "Kubernetes"], Nil)>>
        ELSE <<>>

\* warnIfURLSInvalid that does not ask whether the other platform has a URL
warnIfURLSInvalid_NoOtherCheck(url) ==
    LET seen == URLKindsSeen(url, Len(url))
        urlOutput == IF Len(url) > 1 THEN "URLs" ELSE "a URL"
    IN  IF pushTargetDocker /\ ~seen[1]
        THEN <<Call("log.Warningf", [found |-> urlOutput, definedFor |-> "Kubernetes", noneFor |-> "Docker"], Nil)>>
        ELSE IF ~pushTargetDocker /\ ~seen[2]
        THEN <<Call("log.Warningf", [found |-> urlOutput, definedFor |-> "Docker", noneFor |-> "Kubernetes"], Nil)>>
        ELSE <<>>

\* warnIfURLSInvalid(url): the log lines it writes
warnIfURLSInvalid(url) ==
    LET seen == URLKindsSeen(url, Len(url))
        dockerURLExists == seen[1]
        kubeURLExists == seen[2]
        urlOutput == IF Len(url) > 1 THEN "URLs" ELSE "a URL"
    IN  IF pushTargetDocker /\ ~dockerURLExists /\ kubeURLExists
        THEN <<Call("log.Warningf", [found |-> urlOutput, definedFor |-> "Kubernetes", noneFor |-> "Docker"], Nil)>>
        ELSE IF ~pushTargetDocker /\ ~kubeURLExists /\ dockerURLExists
        THEN <<Call("log.Warningf", [found |-> urlOutput, definedFor |-> "Docker", noneFor |-> "Kubernetes"], Nil)>>
        ELSE <<>>

\* PushListURLs that goes on to the adapter's Push when ListURLs failed
PushListURLs_ErrorIgnored ==
    /\ pc = "push_listurls"
    /\ \/ \E e \in ListURLErrors :
            /\ trace' = Append(trace, Call("ListURLs", [returned |-> <<>>], e))
            /\ localURLs' = <<>>
       \/ \E l \in URLLists :
            /\ localURLs' = l
            /\ trace' = Append(trace, Call("ListURLs", [returned |-> l], Nil)) \o warnIfURLSInvalid(l)
    /\ pc' = "push_push"
    /\ UNCHANGED <<isJSON, pushTargetDocker, verb, opts, devObj, componentName,
                   platformContext, pushParams, command, err, ret, exitCode, runMode>>

\* localURLs, err := po.EnvSpecificInfo.ListURLs(); warnIfURLSInvalid(localURLs)
PushListURLs ==
    /\ pc = "push_listurls"
    /\ \/ \E e \in ListURLErrors :
            /\ trace' = Append(trace, Call("ListURLs", [returned |-> <<>>], e))
            /\ err' = e
            /\ pc' = "push_inner_done"
            /\ UNCHANGED localURLs
       \/ \E l \in URLLists :
            /\ localURLs' = l
            /\ trace' = Append(trace, Call("ListURLs", [returned |-> l], Nil)) \o warnIfURLSInvalid(l)
            /\ pc' = "push_push"
            /\ UNCHANGED err
    /\ UNCHANGED <<isJSON, pushTargetDocker, verb, opts, devObj, componentName,
                   platformContext, pushParams, command, ret, exitCode, runMode>>

\* PushAdapterPush that returns the adapter's error as it is
PushAdapterPush_Unwrapped ==
    /\ pc = "push_push"
    /\ \/ \E e \in PushErrors :
            /\ trace' = Append(trace, Call("Push", pushParams, e))
            /\ err' = e
       \/ /\ trace' = trace \o << Call("Push", pushParams, Nil),
                                  Call("log.Infof", [component |-> componentName], Nil),
                                  Call("log.Success", NoArg, Nil) >>
          /\ err' = Nil
    /\ pc' = "push_inner_done"
    /\ UNCHANGED <<isJSON, pushTargetDocker, verb, opts, devObj, componentName,
                   platformContext, pushParams, localURLs, command, ret, exitCode, runMode>>

\* err = devfileHandler.Push(pushParams), and the return of devfilePushInner
PushAdapterPush ==
    /\ pc = "push_push"
    /\ \/ \E e \in PushErrors :
            /\ trace' = Append(trace, Call("Push", pushParams, e))
            /\ err' = FailedToStart(componentName, e)
       \/ /\ trace' = trace \o << Call("Push", pushParams, Nil),
                                  Call("log.Infof", [component |-> componentName], Nil),
                                  Call("log.Success", NoArg, Nil) >>
          /\ err' = Nil
    /\ pc' = "push_inner_done"
    /\ UNCHANGED <<isJSON, pushTargetDocker, verb, opts, devObj, componentName,
                   platformContext, pushParams, localURLs, command, ret, exitCode, runMode>>

\* PushReportError without os.Exit(1): the suppressed error lets DevfilePush go on
PushReportError_NoExit ==
    /\ pc = "push_inner_done"
    /\ err # Nil /\ isJSON
    /\ trace' = Append(trace, Call("ReportError", [err |-> err], Nil))
    /\ err' = Nil
    /\ UNCHANGED <<isJSON, pushTargetDocker, verb, pc, opts, devObj, componentName,
                   platformContext, pushParams, localURLs, command, ret, exitCode, runMode>>

\* DevfilePush, err != nil && log.IsJSON(): report to the event sink and os.Exit(1)
PushReportError ==
    /\ pc = "push_inner_done"
    /\ err # Nil /\ isJSON
    /\ trace' = trace \o << Call("ReportError", [err |-> err], Nil),
                            Call("os.Exit", [code |-> 1], Nil) >>
    /\ err' = Nil
    /\ exitCode' = 1
    /\ pc' = "exited"
    /\ UNCHANGED <<isJSON, pushTargetDocker, verb, opts, devObj, componentName,
                   platformContext, pushParams, localURLs, command, ret, runMode>>

\* DevfilePush, err != nil: return err
PushReturnError ==
    /\ pc = "push_inner_done"
    /\ err # Nil /\ ~isJSON
    /\ ret' = err
    /\ pc' = "returned"
    /\ UNCHANGED <<isJSON, pushTargetDocker, verb, opts, devObj, componentName,
                   platformContext, pushParams, localURLs, command, err, trace,
                   exitCode, runMode>>

\* RunModeOf without the debugRun branch
RunModeOf_AlwaysRun(debugRun) == Run

\* runMode := envinfo.Run; if po.debugRun { runMode = envinfo.Debug }
RunModeOf(debugRun) == IF debugRun THEN Debug ELSE Run

\* PushSetRunMode that treats a store error under structured output like a push error
PushSetRunMode_DivertedUnderJSON ==
    /\ pc = "push_inner_done"
    /\ err = Nil
    /\ LET mode == RunModeOf(opts.debugRun)
       IN  \/ \E e \in StoreErrors :
                /\ IF isJSON
                   THEN /\ trace' = trace \o << Call("SetRunMode", [mode |-> mode], e),
                                                Call("ReportError", [err |-> e], Nil),
                                                Call("os.Exit", [code |-> 1], Nil) >>
                        /\ exitCode' = 1
                        /\ pc' = "exited"
                        /\ UNCHANGED ret
                   ELSE /\ trace' = Append(trace, Call("SetRunMode", [mode |-> mode], e))
                        /\ ret' = e
                        /\ pc' = "returned"
                        /\ UNCHANGED exitCode
                /\ UNCHANGED runMode
           \/ /\ trace' = Append(trace, Call("SetRunMode", [mode |-> mode], Nil))
              /\ ret' = Nil
              /\ runMode' = mode
              /\ pc' = "returned"
              /\ UNCHANGED exitCode
    /\ UNCHANGED <<isJSON, pushTargetDocker, verb, opts, devObj, componentName,
                   platformContext, pushParams, localURLs, command, err>>

\* PushSetRunMode that drops the error of SetRunMode
PushSetRunMode_ErrorDropped ==
    /\ pc = "push_inner_done"
    /\ err = Nil
    /\ LET mode == RunModeOf(opts.debugRun)
       IN  \/ \E e \in StoreErrors :
                /\ trace' = Append(trace, Call("SetRunMode", [mode |-> mode], e))
                /\ UNCHANGED runMode
           \/ /\ trace' = Append(trace, Call("SetRunMode", [mode |-> mode], Nil))
              /\ runMode' = mode
    /\ ret' = Nil
    /\ pc' = "returned"
    /\ UNCHANGED <<isJSON, pushTargetDocker, verb, opts, devObj, componentName,
                   platformContext, pushParams, localURLs, command, err, exitCode>>

\* DevfilePush, push is successful: return po.EnvSpecificInfo.SetRunMode(runMode)
PushSetRunMode ==
    /\ pc = "push_inner_done"
    /\ err = Nil
    /\ LET mode == RunModeOf(opts.debugRun)
       IN  \/ \E e \in StoreErrors :
                /\ trace' = Append(trace, Call("SetRunMode", [mode |-> mode], e))
                /\ ret' = e
                /\ UNCHANGED runMode
           \/ /\ trace' = Append(trace, Call("SetRunMode", [mode |-> mode], Nil))
              /\ ret' = Nil
              /\ runMode' = mode
    /\ pc' = "returned"
    /\ UNCHANGED <<isJSON, pushTargetDocker, verb, opts, devObj, componentName,
                   platformContext, pushParams, localURLs, command, err, exitCode>>

----------------------------------------------------------------------------
(* Command resolution: common.GetRunCommand / common.GetDebugCommand with an
   empty command name *)

CommandsOfKind(cmds, kind) == {c \in cmds : c.Kind = kind}

\* No command of the kind, or several of them and no single default
NoDefaultCommand(kind) == <<"no default command of kind", kind>>

\* the command of the kind that is marked default, else the only one of the kind
ResolveDefault(cmds, kind) ==
    LET ofKind == CommandsOfKind(cmds, kind)
        defaults == {c \in ofKind : c.IsDefault}
    IN  IF Cardinality(defaults) = 1
        THEN [command |-> CHOOSE c \in defaults : TRUE, err |-> Nil]
        ELSE IF defaults = {} /\ Cardinality(ofKind) = 1
        THEN [command |-> CHOOSE c \in ofKind : TRUE, err |-> Nil]
        ELSE [command |-> EmptyCommand, err |-> NoDefaultCommand(kind)]

\* common.GetRunCommand(devObj.Data, "")
GetRunCommand(cmds) == ResolveDefault(cmds, RunKind)

\* common.GetDebugCommand(devObj.Data, ""): a devfile without any debug command
\* gives the empty command and no error
GetDebugCommand(cmds) ==
    IF CommandsOfKind(cmds, DebugKind) = {}
    THEN [command |-> EmptyCommand, err |-> Nil]
    ELSE ResolveDefault(cmds, DebugKind)

----------------------------------------------------------------------------
(* odo log: DevfileComponentLog *)

LogOptionsSet ==
    [ debug : BOOLEAN,
      logFollow : BOOLEAN,
      componentContext : Contexts,
      Application : Applications,
      Namespace : Namespaces ]

StartLog ==
    /\ pc = "idle"
    /\ verb' = "log"
    /\ \E lo \in LogOptionsSet : opts' = lo
    /\ pc' = "log_parse"
    /\ UNCHANGED <<isJSON, pushTargetDocker, devObj, componentName, platformContext,
                   pushParams, localURLs, command, err, trace, ret, exitCode, runMode>>

\* devfile.ParseAndValidate(lo.devfilePath)
LogParseAndValidate ==
    /\ pc = "log_parse"
    /\ \/ \E e \in ParseErrors :
            /\ trace' = Append(trace, Call("ParseAndValidate", NoArg, e))
            /\ err' = e
            /\ ret' = e
            /\ pc' = "returned"
            /\ UNCHANGED devObj
       \/ \E d \in Devfiles :
            /\ trace' = Append(trace, Call("ParseAndValidate", NoArg, Nil))
            /\ devObj' = d
            /\ pc' = "log_validate"
            /\ UNCHANGED <<err, ret>>
    /\ UNCHANGED <<isJSON, pushTargetDocker, verb, opts, componentName, platformContext,
                   pushParams, localURLs, command, exitCode, runMode>>

\* validate.ValidateDevfileData(devObj.Data), then EnvSpecificInfo.GetName()
LogValidateDevfileData ==
    /\ pc = "log_validate"
    /\ \/ \E e \in ValidateErrors :
            /\ trace' = Append(trace, Call("ValidateDevfileData", [devObj |-> devObj], e))
            /\ err' = e
            /\ ret' = e
            /\ pc' = "returned"
            /\ UNCHANGED componentName
       \/ \E n \in ComponentNames :
            /\ trace' = Append(trace, Call("ValidateDevfileData", [devObj |-> devObj], Nil))
            /\ componentName' = n
            /\ pc' = "log_adapter"
            /\ UNCHANGED <<err, ret>>
    /\ UNCHANGED <<isJSON, pushTargetDocker, verb, opts, devObj, platformContext,
                   pushParams, localURLs, command, exitCode, runMode>>

\* DevfileComponentLog: nil for the local container engine,
\* kubernetes.KubernetesContext{Namespace: lo.KClient.Namespace} otherwise
LogPlatformContext(isDocker, ns) ==
    IF isDocker THEN NilContext ELSE KubernetesContext(ns)

\* adapters.NewComponentAdapter(componentName, lo.componentContext, lo.Application, devObj, platformContext)
LogNewComponentAdapter ==
    /\ pc = "log_adapter"
    /\ platformContext' = LogPlatformContext(pushTargetDocker, opts.Namespace)
    /\ LET args == AdapterArgs(componentName, opts.componentContext, opts.Application,
                               devObj, platformContext')
       IN  \/ \E e \in AdapterErrors :
                /\ trace' = Append(trace, Call("NewComponentAdapter", args, e))
                /\ err' = e
                /\ ret' = e
                /\ pc' = "returned"
           \/ /\ trace' = Append(trace, Call("NewComponentAdapter", args, Nil))
              /\ pc' = "log_command"
              /\ UNCHANGED <<err, ret>>
    /\ UNCHANGED <<isJSON, pushTargetDocker, verb, opts, devObj, componentName,
                   pushParams, localURLs, command, exitCode, runMode>>

\* LogGetCommand that looks the run command up whatever lo.debug says
LogGetCommand_AlwaysRun ==
    /\ pc = "log_command"
    /\ LET r == GetRunCommand(devObj)
       IN  /\ trace' = Append(trace, Call("GetRunCommand", [devObj |-> devObj, name |-> Str_empty], r.err))
           /\ command' = r.command
           /\ IF r.err # Nil
              THEN /\ err' = r.err
                   /\ ret' = r.err
                   /\ pc' = "returned"
              ELSE /\ pc' = "log_log"
                   /\ UNCHANGED <<err, ret>>
    /\ UNCHANGED <<isJSON, pushTargetDocker, verb, opts, devObj, componentName,
                   platformContext, pushParams, localURLs, exitCode, runMode>>

\* LogGetCommand without the check for the empty debug command
LogGetCommand_NoEmptyCheck ==
    /\ pc = "log_command"
    /\ LET r == IF opts.debug THEN GetDebugCommand(devObj) ELSE GetRunCommand(devObj)
           fn == IF opts.debug THEN "GetDebugCommand" ELSE "GetRunCommand"
       IN  /\ trace' = Append(trace, Call(fn, [devObj |-> devObj, name |-> Str_empty], r.err))
           /\ command' = r.command
           /\ IF r.err # Nil
              THEN /\ err' = r.err
                   /\ ret' = r.err
                   /\ pc' = "returned"
              ELSE /\ pc' = "log_log"
                   /\ UNCHANGED <<err, ret>>
    /\ UNCHANGED <<isJSON, pushTargetDocker, verb, opts, devObj, componentName,
                   platformContext, pushParams, localURLs, exitCode, runMode>>

\* if lo.debug { GetDebugCommand ... } else { GetRunCommand ... }
LogGetCommand ==
    /\ pc = "log_command"
    /\ IF opts.debug
       THEN LET r == GetDebugCommand(devObj)
            IN  /\ trace' = Append(trace, Call("GetDebugCommand", [devObj |-> devObj, name |-> Str_empty], r.err))
                /\ command' = r.command
                /\ IF r.err # Nil
                   THEN /\ err' = r.err
                        /\ ret' = r.err
                        /\ pc' = "returned"
                   ELSE IF r.command = EmptyCommand
                   THEN /\ ret' = NoDebugCommand
                        /\ pc' = "returned"
                        /\ UNCHANGED err
                   ELSE /\ pc' = "log_log"
                        /\ UNCHANGED <<err, ret>>
       ELSE LET r == GetRunCommand(devObj)
            IN  /\ trace' = Append(trace, Call("GetRunCommand", [devObj |-> devObj, name |-> Str_empty], r.err))
                /\ command' = r.command
                /\ IF r.err # Nil
                   THEN /\ err' = r.err
                        /\ ret' = r.err
                        /\ pc' = "returned"
                   ELSE /\ pc' = "log_log"
                        /\ UNCHANGED <<err, ret>>
    /\ UNCHANGED <<isJSON, pushTargetDocker, verb, opts, devObj, componentName,
                   platformContext, pushParams, localURLs, exitCode, runMode>>

\* LogAdapterLog that returns the error of adapter Log instead of exiting
LogAdapterLog_ErrorReturned ==
    /\ pc = "log_log"
    /\ LET args == [follow |-> opts.logFollow, command |-> command]
       IN  \/ \E e \in VerbErrors :
                /\ trace' = Append(trace, Call("Log", args, e))
                /\ err' = e
                /\ ret' = e
                /\ pc' = "returned"
           \/ /\ trace' = Append(trace, Call("Log", args, Nil))
              /\ pc' = "log_display"
              /\ UNCHANGED <<err, ret>>
    /\ UNCHANGED <<isJSON, pushTargetDocker, verb, opts, devObj, componentName,
                   platformContext, pushParams, localURLs, command, exitCode, runMode>>

\* rd, err := devfileHandler.Log(lo.logFollow, command); on error log.Errorf and os.Exit(1)
LogAdapterLog ==
    /\ pc = "log_log"
    /\ LET args == [follow |-> opts.logFollow, command |-> command]
       IN  \/ \E e \in VerbErrors :
                /\ trace' = trace \o << Call("Log", args, e),
                                        Call("log.Errorf", [component |-> componentName, err |-> e], Nil),
                                        Call("os.Exit", [code |-> 1], Nil) >>
                /\ err' = e
                /\ exitCode' = 1
                /\ pc' = "exited"
           \/ /\ trace' = Append(trace, Call("Log", args, Nil))
              /\ pc' = "log_display"
              /\ UNCHANGED <<err, exitCode>>
    /\ UNCHANGED <<isJSON, pushTargetDocker, verb, opts, devObj, componentName,
                   platformContext, pushParams, localURLs, command, ret, runMode>>

\* LogDisplayLog whose DisplayLog never returns when following the log
LogDisplayLog_FollowBlocks ==
    /\ pc = "log_display"
    /\ ~opts.logFollow
    /\ \E e \in DisplayErrors \cup {Nil} :
            /\ trace' = Append(trace, Call("DisplayLog",
                                [follow |-> opts.logFollow, out |-> "os.Stdout",
                                 component |-> componentName, numberOfLastLines |-> -1], e))
            /\ ret' = e
    /\ pc' = "returned"
    /\ UNCHANGED <<isJSON, pushTargetDocker, verb, opts, devObj, componentName,
                   platformContext, pushParams, localURLs, command, err, exitCode, runMode>>

\* return util.DisplayLog(lo.logFollow, rd, os.Stdout, componentName, -1)
LogDisplayLog ==
    /\ pc = "log_display"
    /\ \E e \in DisplayErrors \cup {Nil} :
            /\ trace' = Append(trace, Call("DisplayLog",
                                [follow |-> opts.logFollow, out |-> "os.Stdout",
                                 component |-> componentName, numberOfLastLines |-> -1], e))
            /\ ret' = e
    /\ pc' = "returned"
    /\ UNCHANGED <<isJSON, pushTargetDocker, verb, opts, devObj, componentName,
                   platformContext, pushParams, localURLs, command, err, exitCode, runMode>>


----------------------------------------------------------------------------
(* odo delete: DevfileComponentDelete *)

DeleteOptionsSet ==
    [ show : BOOLEAN,
      componentContext : Contexts,
      Application : Applications,
      namespace : Namespaces ]

StartDelete ==
    /\ pc = "idle"
    /\ verb' = "delete"
    /\ \E do \in DeleteOptionsSet : opts' = do
    /\ pc' = "delete_parse"
    /\ UNCHANGED <<isJSON, pushTargetDocker, devObj, componentName, platformContext,
                   pushParams, localURLs, command, err, trace, ret, exitCode, runMode>>

\* devfile.ParseAndValidate(do.devfilePath)
DeleteParseAndValidate ==
    /\ pc = "delete_parse"
    /\ \/ \E e \in ParseErrors :
            /\ trace' = Append(trace, Call("ParseAndValidate", NoArg, e))
            /\ err' = e
            /\ ret' = e
            /\ pc' = "returned"
            /\ UNCHANGED devObj
       \/ \E d \in Devfiles :
            /\ trace' = Append(trace, Call("ParseAndValidate", NoArg, Nil))
            /\ devObj' = d
            /\ pc' = "delete_validate"
            /\ UNCHANGED <<err, ret>>
    /\ UNCHANGED <<isJSON, pushTargetDocker, verb, opts, componentName, platformContext,
                   pushParams, localURLs, command, exitCode, runMode>>

\* DeleteValidateDevfileData that drops the validation error
DeleteValidateDevfileData_ErrorDropped ==
    /\ pc = "delete_validate"
    /\ \E e \in ValidateErrors \cup {Nil}, n \in ComponentNames :
            /\ trace' = Append(trace, Call("ValidateDevfileData", [devObj |-> devObj], e))
            /\ componentName' = n
            /\ pc' = "delete_adapter"
    /\ UNCHANGED <<isJSON, pushTargetDocker, verb, opts, devObj, platformContext,
                   pushParams, localURLs, command, err, ret, exitCode, runMode>>

\* validate.ValidateDevfileData(devObj.Data), then EnvSpecificInfo.GetName()
DeleteValidateDevfileData ==
    /\ pc = "delete_validate"
    /\ \/ \E e \in ValidateErrors :
            /\ trace' = Append(trace, Call("ValidateDevfileData", [devObj |-> devObj], e))
            /\ err' = e
            /\ ret' = e
            /\ pc' = "returned"
            /\ UNCHANGED componentName
       \/ \E n \in ComponentNames :
            /\ trace' = Append(trace, Call("ValidateDevfileData", [devObj |-> devObj], Nil))
            /\ componentName' = n
            /\ pc' = "delete_adapter"
            /\ UNCHANGED <<err, ret>>
    /\ UNCHANGED <<isJSON, pushTargetDocker, verb, opts, devObj, platformContext,
                   pushParams, localURLs, command, exitCode, runMode>>

\* DeletePlatformContext that hands over no cluster context
DeletePlatformContext_Nil(ns) == NilContext

\* kc := kubernetes.KubernetesContext{Namespace: do.namespace}
DeletePlatformContext(ns) == KubernetesContext(ns)

\* labels := map[string]string{"component": componentName}
DeleteLabels(name) == [component |-> name]

\* adapters.NewComponentAdapter(componentName, do.componentContext, do.Application, devObj, kc)
DeleteNewComponentAdapter ==
    /\ pc = "delete_adapter"
    /\ platformContext' = DeletePlatformContext(opts.namespace)
    /\ LET args == AdapterArgs(componentName, opts.componentContext, opts.Application,
                               devObj, platformContext')
       IN  \/ \E e \in AdapterErrors :
                /\ trace' = Append(trace, Call("NewComponentAdapter", args, e))
                /\ err' = e
                /\ ret' = e
                /\ pc' = "returned"
           \/ /\ trace' = Append(trace, Call("NewComponentAdapter", args, Nil))
              /\ pc' = "delete_delete"
              /\ UNCHANGED <<err, ret>>
    /\ UNCHANGED <<isJSON, pushTargetDocker, verb, opts, devObj, componentName,
                   pushParams, localURLs, command, exitCode, runMode>>

\* return devfileHandler.Delete(labels, do.show)
DeleteAdapterDelete ==
    /\ pc = "delete_delete"
    /\ \E e \in VerbErrors \cup {Nil} :
            /\ trace' = Append(trace, Call("Delete",
                                [labels |-> DeleteLabels(componentName), show |-> opts.show], e))
            /\ ret' = e
    /\ pc' = "returned"
    /\ UNCHANGED <<isJSON, pushTargetDocker, verb, opts, devObj, componentName,
                   platformContext, pushParams, localURLs, command, err, exitCode, runMode>>

----------------------------------------------------------------------------
(* odo test: RunTestCommand *)

TestOptionsSet ==
    [ commandName : {Str_empty, Str_test, Str_Test},
      show : BOOLEAN,
      componentContext : Contexts,
      Application : Applications,
      Namespace : Namespaces,
      devObj : Devfiles ]

\* the caller has parsed the devfile into to.devObj
StartTest ==
    /\ pc = "idle"
    /\ verb' = "test"
    /\ \E to \in TestOptionsSet :
            /\ opts' = to
            /\ devObj' = to.devObj
    /\ pc' = "test_adapter"
    /\ UNCHANGED <<isJSON, pushTargetDocker, componentName, platformContext,
                   pushParams, localURLs, command, err, trace, ret, exitCode, runMode>>

\* TestPlatformContext that ignores the push target, as delete and exec do
TestPlatformContext_AlwaysCluster(isDocker, ns) == KubernetesContext(ns)

\* RunTestCommand: nil for the local container engine,
\* kubernetes.KubernetesContext{Namespace: to.KClient.Namespace} otherwise
TestPlatformContext(isDocker, ns) ==
    IF isDocker THEN NilContext ELSE KubernetesContext(ns)

\* EnvSpecificInfo.GetName(), then
\* adapters.NewComponentAdapter(componentName, to.componentContext, to.Application, to.devObj, platformContext)
TestNewComponentAdapter ==
    /\ pc = "test_adapter"
    /\ platformContext' = TestPlatformContext(pushTargetDocker, opts.Namespace)
    /\ \E n \in ComponentNames :
        /\ componentName' = n
        /\ LET args == AdapterArgs(n, opts.componentContext, opts.Application,
                                   opts.devObj, platformContext')
           IN  \/ \E e \in AdapterErrors :
                    /\ trace' = Append(trace, Call("NewComponentAdapter", args, e))
                    /\ err' = e
                    /\ ret' = e
                    /\ pc' = "returned"
               \/ /\ trace' = Append(trace, Call("NewComponentAdapter", args, Nil))
                  /\ pc' = "test_test"
                  /\ UNCHANGED <<err, ret>>
    /\ UNCHANGED <<isJSON, pushTargetDocker, verb, opts, devObj,
                   pushParams, localURLs, command, exitCode, runMode>>

\* TestAdapterTest that calls the adapter's Exec with the command name
TestAdapterTest_ViaExec ==
    /\ pc = "test_test"
    /\ \E e \in VerbErrors \cup {Nil} :
            /\ trace' = Append(trace, Call("Exec", [command |-> <<opts.commandName>>], e))
            /\ ret' = e
    /\ pc' = "returned"
    /\ UNCHANGED <<isJSON, pushTargetDocker, verb, opts, devObj, componentName,
                   platformContext, pushParams, localURLs, command, err, exitCode, runMode>>

\* TestAdapterTest that lower-cases the command name, as push does
TestAdapterTest_LowerCased ==
    /\ pc = "test_test"
    /\ \E e \in VerbErrors \cup {Nil} :
            /\ trace' = Append(trace, Call("Test",
                                [commandName |-> ToLower(opts.commandName), show |-> opts.show], e))
            /\ ret' = e
    /\ pc' = "returned"
    /\ UNCHANGED <<isJSON, pushTargetDocker, verb, opts, devObj, componentName,
                   platformContext, pushParams, localURLs, command, err, exitCode, runMode>>

\* return devfileHandler.Test(to.commandName, to.show)
TestAdapterTest ==
    /\ pc = "test_test"
    /\ \E e \in VerbErrors \cup {Nil} :
            /\ trace' = Append(trace, Call("Test",
                                [commandName |-> opts.commandName, show |-> opts.show], e))
            /\ ret' = e
    /\ pc' = "returned"
    /\ UNCHANGED <<isJSON, pushTargetDocker, verb, opts, devObj, componentName,
                   platformContext, pushParams, localURLs, command, err, exitCode, runMode>>

----------------------------------------------------------------------------
(* odo exec: DevfileComponentExec *)

ExecWords == {"npm", "test"}

ExecOptionsSet ==
    [ command : SeqsUpTo(ExecWords, MaxArgs),
      componentContext : Contexts,
      Application : Applications,
      namespace : Namespaces ]

\* opts.command is the argument vector DevfileComponentExec receives
StartExec ==
    /\ pc = "idle"
    /\ verb' = "exec"
    /\ \E eo \in ExecOptionsSet : opts' = eo
    /\ pc' = "exec_parse"
    /\ UNCHANGED <<isJSON, pushTargetDocker, devObj, componentName, platformContext,
                   pushParams, localURLs, command, err, trace, ret, exitCode, runMode>>

\* devfile.ParseAndValidate(eo.devfilePath)
ExecParseAndValidate ==
    /\ pc = "exec_parse"
    /\ \/ \E e \in ParseErrors :
            /\ trace' = Append(trace, Call("ParseAndValidate", NoArg, e))
            /\ err' = e
            /\ ret' = e
            /\ pc' = "returned"
            /\ UNCHANGED devObj
       \/ \E d \in Devfiles :
            /\ trace' = Append(trace, Call("ParseAndValidate", NoArg, Nil))
            /\ devObj' = d
            /\ pc' = "exec_validate"
            /\ UNCHANGED <<err, ret>>
    /\ UNCHANGED <<isJSON, pushTargetDocker, verb, opts, componentName, platformContext,
                   pushParams, localURLs, command, exitCode, runMode>>

\* validate.ValidateDevfileData(devObj.Data), then EnvSpecificInfo.GetName()
ExecValidateDevfileData ==
    /\ pc = "exec_validate"
    /\ \/ \E e \in ValidateErrors :
            /\ trace' = Append(trace, Call("ValidateDevfileData", [devObj |-> devObj], e))
            /\ err' = e
            /\ ret' = e
            /\ pc' = "returned"
            /\ UNCHANGED componentName
       \/ \E n \in ComponentNames :
            /\ trace' = Append(trace, Call("ValidateDevfileData", [devObj |-> devObj], Nil))
            /\ componentName' = n
            /\ pc' = "exec_adapter"
            /\ UNCHANGED <<err, ret>>
    /\ UNCHANGED <<isJSON, pushTargetDocker, verb, opts, devObj, platformContext,
                   pushParams, localURLs, command, exitCode, runMode>>

\* kc := kubernetes.KubernetesContext{Namespace: eo.namespace}
ExecPlatformContext(ns) == KubernetesContext(ns)

\* ExecNewComponentAdapter that goes on after a construction error
ExecNewComponentAdapter_ErrorDropped ==
    /\ pc = "exec_adapter"
    /\ platformContext' = ExecPlatformContext(opts.namespace)
    /\ \E e \in AdapterErrors \cup {Nil} :
            trace' = Append(trace, Call("NewComponentAdapter",
                        AdapterArgs(componentName, opts.componentContext, opts.Application,
                                    devObj, platformContext'), e))
    /\ pc' = "exec_exec"
    /\ UNCHANGED <<isJSON, pushTargetDocker, verb, opts, devObj, componentName,
                   pushParams, localURLs, command, err, ret, exitCode, runMode>>

\* adapters.NewComponentAdapter(componentName, eo.componentContext, eo.componentOptions.Application, devObj, kc)
ExecNewComponentAdapter ==
    /\ pc = "exec_adapter"
    /\ platformContext' = ExecPlatformContext(opts.namespace)
    /\ LET args == AdapterArgs(componentName, opts.componentContext, opts.Application,
                               devObj, platformContext')
       IN  \/ \E e \in AdapterErrors :
                /\ trace' = Append(trace, Call("NewComponentAdapter", args, e))
                /\ err' = e
                /\ ret' = e
                /\ pc' = "returned"
           \/ /\ trace' = Append(trace, Call("NewComponentAdapter", args, Nil))
              /\ pc' = "exec_exec"
              /\ UNCHANGED <<err, ret>>
    /\ UNCHANGED <<isJSON, pushTargetDocker, verb, opts, devObj, componentName,
                   pushParams, localURLs, command, exitCode, runMode>>

\* ExecAdapterExec that treats the first word as the program and drops it
ExecAdapterExec_DropsFirst ==
    /\ pc = "exec_exec"
    /\ \E e \in VerbErrors \cup {Nil} :
            /\ trace' = Append(trace, Call("Exec",
                    [command |-> IF opts.command = <<>> THEN <<>> ELSE Tail(opts.command)], e))
            /\ ret' = e
    /\ pc' = "returned"
    /\ UNCHANGED <<isJSON, pushTargetDocker, verb, opts, devObj, componentName,
                   platformContext, pushParams, localURLs, command, err, exitCode, runMode>>

\* ExecAdapterExec that wraps the error of adapter Exec
ExecAdapterExec_Wrapped ==
    /\ pc = "exec_exec"
    /\ \E e \in VerbErrors \cup {Nil} :
            /\ trace' = Append(trace, Call("Exec", [command |-> opts.command], e))
            /\ ret' = IF e = Nil THEN Nil ELSE Wrap(e, "unable to exec command")
    /\ pc' = "returned"
    /\ UNCHANGED <<isJSON, pushTargetDocker, verb, opts, devObj, componentName,
                   platformContext, pushParams, localURLs, command, err, exitCode, runMode>>

\* return devfileHandler.Exec(command)
ExecAdapterExec ==
    /\ pc = "exec_exec"
    /\ \E e \in VerbErrors \cup {Nil} :
            /\ trace' = Append(trace, Call("Exec", [command |-> opts.command], e))
            /\ ret' = e
    /\ pc' = "returned"
    /\ UNCHANGED <<isJSON, pushTargetDocker, verb, opts, devObj, componentName,
                   platformContext, pushParams, localURLs, command, err, exitCode, runMode>>


Next ==
    \/ StartPush
    \/ PushParseAndValidate
    \/ PushValidateDevfileData
    \/ PushGetAbsPath
    \/ PushApplyIgnore
    \/ PushNewComponentAdapter
    \/ PushListURLs
    \/ PushAdapterPush
    \/ PushReportError
    \/ PushReturnError
    \/ PushSetRunMode
    \/ StartLog
    \/ LogParseAndValidate
    \/ LogValidateDevfileData
    \/ LogNewComponentAdapter
    \/ LogGetCommand
    \/ LogAdapterLog
    \/ LogDisplayLog
    \/ StartDelete
    \/ DeleteParseAndValidate
    \/ DeleteValidateDevfileData
    \/ DeleteNewComponentAdapter
    \/ DeleteAdapterDelete
    \/ StartTest
    \/ TestNewComponentAdapter
    \/ TestAdapterTest
    \/ StartExec
    \/ ExecParseAndValidate
    \/ ExecValidateDevfileData
    \/ ExecNewComponentAdapter
    \/ ExecAdapterExec

Spec == Init /\ [][Next]_vars

----------------------------------------------------------------------------
(* Properties *)

\* a step of an invocation that has started: the statement after a collaborator
\* call that returned
Proceed == pc # "idle" /\ Next

\* the five verbs when every collaborator call returns: an invocation that has
\* started goes on to its next statement
FairSpec == Init /\ [][Next]_vars /\ WF_vars(Proceed)

Done == pc \in {"returned", "exited"}

\* the calls devfilePushInner makes that can fail
PushSteps == {"ParseAndValidate", "ValidateDevfileData", "GetAbsPath", "ApplyIgnore",
              "NewComponentAdapter", "ListURLs", "Push"}

\* some step of devfilePushInner returned an error
PushFailed == \E i \in 1..Len(trace) : trace[i].fn \in PushSteps /\ trace[i].res # Nil

\* devfilePushInner ran to its end without an error
PushSucceeded == \E i \in 1..Len(trace) : trace[i].fn = "Push" /\ trace[i].res = Nil

\* the adapter's verb methods
AdapterVerbs == {"Push", "Log", "Delete", "Exec", "Test"}

\* C1: a push that succeeds calls SetRunMode exactly once, with Debug iff
\* debugRun is set and Run otherwise; a push that fails at any step of
\* devfilePushInner never calls SetRunMode.
C1_SetRunModeOnce ==
    verb = "push" =>
        /\ Count("SetRunMode") <= 1
        /\ PushFailed => Count("SetRunMode") = 0
        /\ ~PushSucceeded => Count("SetRunMode") = 0
        /\ (Done /\ PushSucceeded) =>
              /\ Count("SetRunMode") = 1
              /\ \A i \in CallsOf("SetRunMode") :
                    trace[i].arg.mode = (IF opts.debugRun THEN "debug" ELSE "run")

C1_Witness ==
    /\ verb = "push" /\ pc = "returned" /\ opts.debugRun
    /\ PushSucceeded
    /\ \E i \in CallsOf("SetRunMode") : trace[i].arg.mode = "debug"

\* C2: when devfilePushInner fails, structured output gives exactly one
\* ReportError, exit code 1 and no return to the caller; plain output gives the
\* error returned to the caller, no ReportError and no exit.
C2_FailureByOutputMode ==
    (verb = "push" /\ PushFailed) =>
        /\ Count("ReportError") <= 1
        /\ ~isJSON => Count("ReportError") = 0 /\ Count("os.Exit") = 0 /\ exitCode = -1
        /\ Done =>
             IF isJSON
             THEN /\ pc = "exited" /\ exitCode = 1
                  /\ Count("ReportError") = 1
                  /\ ret = Nil
             ELSE /\ pc = "returned"
                  /\ ret # Nil

C2_Witness ==
    /\ verb = "push" /\ PushFailed /\ isJSON /\ pc = "exited"
    /\ Count("ReportError") = 1 /\ exitCode = 1

\* the manifest was parsed and passed the second validation
Validated ==
    \E i \in 1..Len(trace) : trace[i].fn = "ValidateDevfileData" /\ trace[i].res = Nil

\* the adapter was constructed
AdapterConstructed ==
    \E i \in 1..Len(trace) : trace[i].fn = "NewComponentAdapter" /\ trace[i].res = Nil

\* odo log --debug on a validated manifest without any debug command
LogDebugWithoutDebugCommand ==
    /\ verb = "log" /\ opts.debug
    /\ Validated
    /\ \A c \in devObj : c.Kind # "debug"

PlainPushOnBuildRunManifest ==
    /\ verb = "push"
    /\ ~opts.debugRun /\ ~opts.forceBuild
    /\ opts.devfileBuildCommand = <<>> /\ opts.devfileRunCommand = <<>>
    /\ opts.devfileDebugCommand = <<>>
    /\ devObj = { [Id |-> Str_build, Kind |-> "build", IsDefault |-> TRUE],
                  [Id |-> Str_run, Kind |-> "run", IsDefault |-> TRUE] }

\* C4 as stated: that push hands adapter Push DevfileBuildCmd="build",
\* DevfileRunCmd="run", DevfileDebugCmd="", and persists RunMode=Run when the
\* adapter succeeds.
C4_Original ==
    PlainPushOnBuildRunManifest =>
        /\ \A i \in CallsOf("Push") :
              /\ trace[i].arg.DevfileBuildCmd = Str_build
              /\ trace[i].arg.DevfileRunCmd = Str_run
              /\ trace[i].arg.DevfileDebugCmd = <<>>
        /\ (Done /\ PushSucceeded) => runMode = "run"

\* C4 amended: that push hands adapter Push the three command names empty
\* (DevfileBuildCmd="", DevfileRunCmd="", DevfileDebugCmd="": the default
\* commands are left for the adapter to resolve), with Debug=false and
\* ForceBuild=false; when the adapter succeeds SetRunMode(Run) is called, and
\* RunMode=Run is persisted unless the store returns an error.
C4_PlainPushParameters ==
    PlainPushOnBuildRunManifest =>
        /\ \A i \in CallsOf("Push") :
              /\ trace[i].arg.DevfileBuildCmd = <<>>
              /\ trace[i].arg.DevfileRunCmd = <<>>
              /\ trace[i].arg.DevfileDebugCmd = <<>>
              /\ trace[i].arg.Debug = FALSE
              /\ trace[i].arg.ForceBuild = FALSE
        /\ (Done /\ PushSucceeded) =>
              /\ \E i \in CallsOf("SetRunMode") : trace[i].arg.mode = "run"
              /\ (\A i \in CallsOf("SetRunMode") : trace[i].res = Nil) => runMode = "run"

C4_Witness ==
    /\ PlainPushOnBuildRunManifest /\ pc = "returned"
    /\ PushSucceeded /\ ret = Nil /\ runMode = "run"
    /\ \E i \in CallsOf("Push") : trace[i].arg.DevfileBuildCmd = <<>>

\* the list ListURLs returned to the push
ListedURLs == {i \in CallsOf("ListURLs") : trace[i].res = Nil}

\* no URL of the active platform's kind, and some URL of the other platform's kind
URLMismatch(url) ==
    LET docker == {i \in 1..Len(url) : url[i].Kind = "docker"}
        kube == {i \in 1..Len(url) : url[i].Kind # "docker"}
    IN  IF pushTargetDocker
        THEN docker = {} /\ kube # {}
        ELSE kube = {} /\ docker # {}

\* C5: warnIfURLSInvalid warns iff the active platform has no URL of its kind
\* while the other platform has one; it raises no error, leaves the URL list as
\* ListURLs returned it, and the push goes on to adapter Push either way.
C5_WarnIffMismatch ==
    verb = "push" =>
        /\ ListedURLs = {} => Count("log.Warningf") = 0
        /\ \A i \in ListedURLs :
              /\ Count("log.Warningf") = (IF URLMismatch(trace[i].arg.returned) THEN 1 ELSE 0)
              /\ \A j \in CallsOf("log.Warningf") : j = i + 1
              /\ localURLs = trace[i].arg.returned
              /\ pc = "push_push" \/ Count("Push") = 1
              /\ pc = "push_push" => err = Nil
              /\ \A j \in CallsOf("Push") : j = i + 1 + Count("log.Warningf")

C5_Witness ==
    /\ verb = "push" /\ pushTargetDocker
    /\ Count("log.Warningf") = 1 /\ Count("Push") = 1
    /\ Len(localURLs) = 2

\* C6: the platform context is NilContext (the local engine) when the push
\* target flag is set and the cluster context carrying the caller's namespace
\* otherwise, whatever the namespace or flag; push, log and test hand
\* NewComponentAdapter the context chosen by that rule.
C6_PlatformSelection ==
    /\ \A ns \in Namespaces :
          /\ PushPlatformContext(TRUE, ns) = [variant |-> "nil", Namespace |-> ""]
          /\ LogPlatformContext(TRUE, ns) = [variant |-> "nil", Namespace |-> ""]
          /\ TestPlatformContext(TRUE, ns) = [variant |-> "nil", Namespace |-> ""]
          /\ PushPlatformContext(FALSE, ns) = [variant |-> "KubernetesContext", Namespace |-> ns]
          /\ LogPlatformContext(FALSE, ns) = [variant |-> "KubernetesContext", Namespace |-> ns]
          /\ TestPlatformContext(FALSE, ns) = [variant |-> "KubernetesContext", Namespace |-> ns]
    /\ verb \in {"push", "log", "test"} =>
          \A i \in CallsOf("NewComponentAdapter") :
              trace[i].arg.platformContext =
                  (IF pushTargetDocker
                   THEN [variant |-> "nil", Namespace |-> ""]
                   ELSE [variant |-> "KubernetesContext", Namespace |-> opts.Namespace])

C6_Witness ==
    /\ verb = "test" /\ ~pushTargetDocker /\ opts.Namespace = "prod"
    /\ \E i \in CallsOf("NewComponentAdapter") :
          trace[i].arg.platformContext = [variant |-> "KubernetesContext", Namespace |-> "prod"]

\* trace[i] is a manifest parse error or a failure of the second validation pass
ManifestFailure(i) ==
    /\ trace[i].fn \in {"ParseAndValidate", "ValidateDevfileData"}
    /\ trace[i].res # Nil

\* C7 as stated: in push, log, delete and exec a parse error or a failure of
\* ValidateDevfileData ends the invocation at once: no adapter is constructed,
\* no adapter verb runs, no run mode is persisted, and the caller is handed
\* that very error, unwrapped.
C7_Original ==
    verb \in {"push", "log", "delete", "exec"} =>
        \A i \in 1..Len(trace) :
            ManifestFailure(i) =>
                /\ Count("NewComponentAdapter") = 0
                /\ \A j \in 1..Len(trace) : trace[j].fn \notin AdapterVerbs
                /\ Count("SetRunMode") = 0 /\ runMode = ""
                /\ Done => (pc = "returned" /\ ret = trace[i].res)

\* C7 amended: as above, except that the error is handed to the caller only
\* outside a push under structured output; there the same unwrapped error is
\* given to ReportError and the process exits with status 1.
C7_ManifestErrorsAbort ==
    verb \in {"push", "log", "delete", "exec"} =>
        \A i \in 1..Len(trace) :
            ManifestFailure(i) =>
                /\ Count("NewComponentAdapter") = 0
                /\ \A j \in 1..Len(trace) : trace[j].fn \notin AdapterVerbs
                /\ Count("SetRunMode") = 0 /\ runMode = ""
                /\ \A j \in (i + 1)..Len(trace) : trace[j].fn \in {"ReportError", "os.Exit"}
                /\ pc \in {"push_inner_done", "returned", "exited"}
                /\ pc = "push_inner_done" => err = trace[i].res
                /\ pc = "returned" => ret = trace[i].res
                /\ Done => (pc = "exited" <=> (verb = "push" /\ isJSON))
                /\ pc = "exited" =>
                      /\ exitCode = 1
                      /\ Count("ReportError") = 1
                      /\ \A j \in CallsOf("ReportError") : trace[j].arg.err = trace[i].res

C7_Witness ==
    /\ verb = "delete" /\ pc = "returned"
    /\ \E i \in 1..Len(trace) : ManifestFailure(i) /\ trace[i].fn = "ValidateDevfileData"
    /\ ret = <<"devfile data is invalid">>

\* C8: when adapter Push succeeded and SetRunMode returns a storage error,
\* DevfilePush returns that error to the caller.
C8_StoreErrorReturned ==
    (verb = "push" /\ PushSucceeded) =>
        \A i \in CallsOf("SetRunMode") :
            trace[i].res # Nil =>
                /\ pc = "returned"
                /\ ret = trace[i].res
                /\ ret # Nil
                /\ exitCode = -1

C8_Witness ==
    /\ verb = "push" /\ pc = "returned" /\ PushSucceeded
    /\ \E i \in CallsOf("SetRunMode") : trace[i].res = <<"cannot write env.yaml">>
    /\ ret = <<"cannot write env.yaml">>

\* C9: in log, an error of adapter Log ends the process with status 1: the
\* stream is not displayed, nothing is returned to the caller and nothing is
\* reported to the event sink, in either output mode; when adapter Log succeeds
\* the stream is displayed on standard output with the caller's follow flag.
C9_LogFailureIsFatal ==
    verb = "log" =>
        \A i \in CallsOf("Log") :
            /\ trace[i].arg.follow = opts.logFollow
            /\ IF trace[i].res # Nil
               THEN /\ pc = "exited" /\ exitCode = 1
                    /\ Count("DisplayLog") = 0
                    /\ Count("ReportError") = 0
                    /\ ret = Nil
               ELSE /\ pc \in {"log_display", "returned"}
                    /\ exitCode = -1
                    /\ pc = "returned" =>
                          /\ Count("DisplayLog") = 1
                          /\ \A j \in CallsOf("DisplayLog") :
                                /\ j = i + 1
                                /\ trace[j].arg.follow = opts.logFollow
                                /\ trace[j].arg.out = "os.Stdout"
                                /\ ret = trace[j].res

C9_Witness ==
    /\ verb = "log" /\ isJSON /\ pc = "exited" /\ exitCode = 1
    /\ \E i \in CallsOf("Log") : trace[i].res # Nil

\* the adapter verb of delete, exec and test
VerbOf == [delete |-> "Delete", exec |-> "Exec", test |-> "Test"]

\* C10: in delete, exec and test what the adapter's verb call returns, an error
\* or nil, is returned to the caller as it is: nothing goes to the event sink
\* and the process is not terminated.
C10_VerbErrorUnchanged ==
    verb \in {"delete", "exec", "test"} =>
        /\ Count("ReportError") = 0 /\ Count("os.Exit") = 0
        /\ exitCode = -1 /\ pc # "exited"
        /\ \A i \in CallsOf(VerbOf[verb]) :
              /\ pc = "returned"
              /\ ret = trace[i].res

C10_Witness ==
    /\ verb = "exec" /\ pc = "returned" /\ isJSON
    /\ \E i \in CallsOf("Exec") : trace[i].res = <<"pod not found">>
    /\ ret = <<"pod not found">>


\* the calls that look a command up in the manifest
ResolverCalls == {"GetRunCommand", "GetDebugCommand"}

\* C11: exec hands adapter Exec the argument vector it received, the same words
\* in the same order, looks no command up in the manifest, and invokes no
\* adapter verb other than Exec.
C11_ExecVectorPassedThrough ==
    verb = "exec" =>
        /\ Count("Exec") <= 1
        /\ \A i \in 1..Len(trace) :
              /\ trace[i].fn \in AdapterVerbs => trace[i].fn = "Exec"
              /\ trace[i].fn \notin ResolverCalls
              /\ trace[i].fn = "Exec" =>
                    /\ Len(trace[i].arg.command) = Len(opts.command)
                    /\ \A k \in 1..Len(opts.command) :
                          trace[i].arg.command[k] = opts.command[k]

C11_Witness ==
    /\ verb = "exec" /\ opts.command = <<"npm", "test">>
    /\ \E i \in CallsOf("Exec") : trace[i].arg.command = <<"npm", "test">>
    /\ Count("Delete") = 0

\* C12: delete and exec construct the adapter with the cluster context that
\* carries the caller's namespace, whatever the push target flag; delete hands
\* adapter Delete the label selector {"component": component name} and the
\* caller's show flag.
C12_ClusterContextAndLabels ==
    verb \in {"delete", "exec"} =>
        /\ \A i \in CallsOf("NewComponentAdapter") :
              trace[i].arg.platformContext =
                  [variant |-> "KubernetesContext", Namespace |-> opts.namespace]
        /\ \A i \in CallsOf("Delete") :
              /\ DOMAIN trace[i].arg.labels = {"component"}
              /\ trace[i].arg.labels.component = componentName
              /\ componentName \in ComponentNames
              /\ trace[i].arg.labels.component = trace[i - 1].arg.componentName
              /\ trace[i].arg.show = opts.show

C12_Witness ==
    /\ verb = "delete" /\ pushTargetDocker /\ opts.namespace = "prod" /\ ~opts.show
    /\ \E i \in CallsOf("Delete") :
          /\ trace[i].arg.labels = [component |-> "frontend"]
          /\ trace[i].arg.show = FALSE
    /\ \E i \in CallsOf("NewComponentAdapter") :
          trace[i].arg.platformContext.Namespace = "prod"


\* C13: log looks the command up with GetDebugCommand iff the debug flag is set
\* and with GetRunCommand otherwise, always with the empty name, and hands
\* adapter Log the command found; a debug lookup on a manifest without any
\* debug command ends with the 'no debug command' error, not with a
\* no-default-command error; after a failed lookup adapter Log is not invoked.
C13_LogCommandResolution ==
    verb = "log" =>
        /\ Count("GetDebugCommand") + Count("GetRunCommand") <= 1
        /\ \A i \in 1..Len(trace) :
              /\ trace[i].fn = "GetDebugCommand" => opts.debug
              /\ trace[i].fn = "GetRunCommand" => ~opts.debug
              /\ trace[i].fn \in ResolverCalls =>
                    /\ trace[i].arg.name = <<>>
                    /\ trace[i].res # <<>> =>
                          (pc = "returned" /\ ret = trace[i].res /\ Count("Log") = 0)
              /\ (trace[i].fn = "GetDebugCommand" /\ \A c \in devObj : c.Kind # "debug") =>
                    /\ pc = "returned"
                    /\ ret = NoDebugCommand
                    /\ ret # <<"no default command of kind", "debug">>
                    /\ Count("Log") = 0
              /\ trace[i].fn = "Log" =>
                    /\ i > 1 /\ trace[i - 1].fn \in ResolverCalls /\ trace[i - 1].res = <<>>
                    /\ trace[i].arg.command \in devObj
                    /\ trace[i].arg.command.Kind = (IF opts.debug THEN "debug" ELSE "run")

C13_Witness ==
    /\ verb = "log" /\ opts.debug /\ pc = "returned"
    /\ devObj = {Cmd(Str_build, BuildKind, TRUE), Cmd(Str_run, RunKind, TRUE)}
    /\ Count("GetDebugCommand") = 1 /\ Count("Log") = 0
    /\ ret = NoDebugCommand

\* C14: an adapter verb is invoked only on an adapter that was constructed
\* without error; in push, log, delete and exec the adapter is constructed only
\* after the manifest was parsed and validated; when the construction fails no
\* adapter verb is invoked, no run mode is persisted, and the invocation fails
\* with the construction error.
C14_ConstructBeforeVerb ==
    \A i \in 1..Len(trace) :
        /\ trace[i].fn \in AdapterVerbs =>
              \E j \in 1..(i - 1) : trace[j].fn = "NewComponentAdapter" /\ trace[j].res = Nil
        /\ (trace[i].fn = "NewComponentAdapter" /\ verb \in {"push", "log", "delete", "exec"}) =>
              \E j, k \in 1..(i - 1) :
                  /\ j < k
                  /\ trace[j].fn = "ParseAndValidate" /\ trace[j].res = Nil
                  /\ trace[k].fn = "ValidateDevfileData" /\ trace[k].res = Nil
        /\ (trace[i].fn = "NewComponentAdapter" /\ trace[i].res # Nil) =>
              /\ \A j \in 1..Len(trace) : trace[j].fn \notin AdapterVerbs
              /\ Count("SetRunMode") = 0 /\ runMode = ""
              /\ pc \in {"push_inner_done", "returned", "exited"}
              /\ pc = "push_inner_done" => err = trace[i].res
              /\ pc = "returned" => ret = trace[i].res
              /\ pc = "exited" =>
                    \E j \in CallsOf("ReportError") : trace[j].arg.err = trace[i].res

C14_Witness ==
    /\ verb = "log" /\ pc = "returned"
    /\ \E i \in CallsOf("NewComponentAdapter") : trace[i].res = <<"unable to create adapter">>
    /\ ret = <<"unable to create adapter">>
    /\ Validated


\* out is in with every capital ASCII letter replaced by its small letter
IsLowerOf(out, in) ==
    /\ Len(out) = Len(in)
    /\ \A k \in 1..Len(in) :
          IF in[k] \in 65..90 THEN out[k] = in[k] + 32 ELSE out[k] = in[k]

\* a and b are the same name up to the case of their letters
SameUpToCase(a, b) ==
    /\ Len(a) = Len(b)
    /\ \A k \in 1..Len(a) :
          \/ a[k] = b[k]
          \/ a[k] \in 65..90 /\ b[k] = a[k] + 32
          \/ b[k] \in 65..90 /\ a[k] = b[k] + 32

CommandNames == {Str_empty, Str_build, Str_Build, Str_run, Str_RUN, Str_debug, Str_Debug}

\* C15: push hands the adapter the caller's build, run and debug command names
\* lower-cased and otherwise as given, and looks none of them up in the
\* manifest: options that differ from the caller's only in the letter case of a
\* name give the same PushParameters, and before adapter Push the push fails
\* only on the error of a collaborator, never on a name the manifest lacks.
C15_NamesLowerCasedNotResolved ==
    verb = "push" =>
        /\ \A i \in 1..Len(trace) : trace[i].fn \notin ResolverCalls
        /\ (pc = "push_inner_done" /\ err # <<>>) => trace[Len(trace)].res # <<>>
        /\ \A i \in CallsOf("Push") :
              /\ IsLowerOf(trace[i].arg.DevfileBuildCmd, opts.devfileBuildCommand)
              /\ IsLowerOf(trace[i].arg.DevfileRunCmd, opts.devfileRunCommand)
              /\ IsLowerOf(trace[i].arg.DevfileDebugCmd, opts.devfileDebugCommand)
              /\ \A n \in CommandNames :
                    /\ SameUpToCase(n, opts.devfileBuildCommand) =>
                          PushParameters([opts EXCEPT !.devfileBuildCommand = n],
                                         componentName, trace[i].arg.DebugPort) = trace[i].arg
                    /\ SameUpToCase(n, opts.devfileRunCommand) =>
                          PushParameters([opts EXCEPT !.devfileRunCommand = n],
                                         componentName, trace[i].arg.DebugPort) = trace[i].arg
                    /\ SameUpToCase(n, opts.devfileDebugCommand) =>
                          PushParameters([opts EXCEPT !.devfileDebugCommand = n],
                                         componentName, trace[i].arg.DebugPort) = trace[i].arg

C15_Witness ==
    /\ verb = "push" /\ devObj = {}
    /\ opts.devfileBuildCommand = Str_Build /\ opts.devfileDebugCommand = Str_Debug
    /\ \E i \in CallsOf("Push") :
          /\ trace[i].arg.DevfileBuildCmd = Str_build
          /\ trace[i].arg.DevfileDebugCmd = Str_debug


\* the errors a push has produced so far: pending in devfilePushInner's err,
\* returned to the caller, or reported to the event sink
PushOutcomeErrors ==
    (IF pc = "push_inner_done" /\ err # <<>> THEN {err} ELSE {})
    \cup (IF pc = "returned" /\ ret # <<>> THEN {ret} ELSE {})
    \cup {trace[j].arg.err : j \in CallsOf("ReportError")}

\* e is the error that wraps a failure with the component's name
NamesComponent(e) ==
    /\ Len(e) >= 2
    /\ e[1] = "Failed to start component with name"
    /\ e[2] = componentName

\* the success line is written iff adapter Push returned no error, and only a
\* failure of adapter Push is wrapped into the error naming the component
SuccessLineAndWrapping ==
    /\ Count("log.Success") = (IF PushSucceeded THEN 1 ELSE 0)
    /\ Count("log.Infof") = Count("log.Success")
    /\ \A i \in CallsOf("log.Infof") :
          /\ trace[i].arg.component = componentName
          /\ trace[i - 1].fn = "Push" /\ trace[i - 1].res = <<>>
    /\ \A e \in PushOutcomeErrors :
          NamesComponent(e) <=> (\E i \in CallsOf("Push") : trace[i].res # <<>>)
    /\ \A i \in CallsOf("Push") :
          trace[i].res # <<>> =>
              /\ PushOutcomeErrors # {}
              /\ \A e \in PushOutcomeErrors :
                    e = <<"Failed to start component with name", componentName>> \o trace[i].res

\* C16 as stated: with the above, once the success line is written the
\* invocation ends Succeeded with the run mode persisted.
C16_Original ==
    verb = "push" =>
        /\ SuccessLineAndWrapping
        /\ (Count("log.Success") > 0 /\ Done) =>
              /\ pc = "returned" /\ ret = <<>>
              /\ runMode = (IF opts.debugRun THEN "debug" ELSE "run")

\* C16 amended: once the success line is written SetRunMode is called, and the
\* invocation ends Succeeded with the run mode persisted unless SetRunMode
\* returns an error; then it ends Failed with that error and no run mode
\* persisted.
C16_SuccessLineThenPersist ==
    verb = "push" =>
        /\ SuccessLineAndWrapping
        /\ (Count("log.Success") > 0 /\ Done) =>
              /\ pc = "returned"
              /\ Count("SetRunMode") = 1
              /\ \A i \in CallsOf("SetRunMode") :
                    IF trace[i].res = <<>>
                    THEN /\ ret = <<>>
                         /\ runMode = (IF opts.debugRun THEN "debug" ELSE "run")
                    ELSE /\ ret = trace[i].res
                         /\ runMode = ""

C16_Witness ==
    /\ verb = "push" /\ pc = "returned" /\ ~opts.debugRun
    /\ Count("log.Success") = 1
    /\ ret = <<>> /\ runMode = "run"


\* the adapter method that belongs to each verb
VerbMethod == [push |-> "Push", log |-> "Log", delete |-> "Delete",
               exec |-> "Exec", test |-> "Test"]

\* C17: one invocation constructs at most one adapter and calls at most one
\* verb method on it, the one of the invoked verb.
C17_OneAdapterOneVerb ==
    /\ Count("NewComponentAdapter") <= 1
    /\ Cardinality({i \in 1..Len(trace) : trace[i].fn \in AdapterVerbs}) <= 1
    /\ \A i \in 1..Len(trace) :
          trace[i].fn \in AdapterVerbs =>
              /\ verb \in DOMAIN VerbMethod
              /\ trace[i].fn = VerbMethod[verb]

C17_Witness ==
    /\ verb = "push" /\ Done
    /\ Count("NewComponentAdapter") = 1
    /\ Count("Push") = 1

\* C18: test parses and validates no manifest: it constructs the adapter on
\* the manifest the caller parsed, with the platform context chosen by the
\* push target flag, and hands adapter Test the caller's command name as given,
\* the empty name included, with the show flag.
C18_TestPassesThrough ==
    verb = "test" =>
        /\ \A i \in 1..Len(trace) :
              trace[i].fn \notin {"ParseAndValidate", "ValidateDevfileData"} \cup ResolverCalls
        /\ \A i \in CallsOf("NewComponentAdapter") :
              /\ i = 1
              /\ trace[i].arg.devObj = opts.devObj
              /\ trace[i].arg.platformContext.variant =
                    (IF pushTargetDocker THEN "nil" ELSE "KubernetesContext")
              /\ ~pushTargetDocker => trace[i].arg.platformContext.Namespace = opts.Namespace
        /\ \A i \in CallsOf("Test") :
              /\ Len(trace[i].arg.commandName) = Len(opts.commandName)
              /\ \A k \in 1..Len(opts.commandName) :
                    trace[i].arg.commandName[k] = opts.commandName[k]
              /\ trace[i].arg.show = opts.show

C18_Witness ==
    /\ verb = "test" /\ opts.commandName = <<>> /\ opts.show /\ pushTargetDocker
    /\ \E i \in CallsOf("Test") : trace[i].arg.commandName = <<>> /\ trace[i].arg.show
    /\ Len(trace) = 2


\* C19: a warning of warnIfURLSInvalid says "URLs" iff the list it was given
\* holds more than one URL, and "a URL" otherwise.
C19_PluralByTotalCount ==
    verb = "push" =>
        \A i \in ListedURLs :
            \A j \in CallsOf("log.Warningf") :
                /\ trace[j].arg.found \in {"URLs", "a URL"}
                /\ trace[j].arg.found = "URLs" <=> Len(trace[i].arg.returned) > 1

C19_Witness ==
    /\ verb = "push" /\ ~pushTargetDocker
    /\ \E i \in ListedURLs : Len(trace[i].arg.returned) = 1
    /\ \E j \in CallsOf("log.Warningf") :
          trace[j].arg.found = "a URL" /\ trace[j].arg.definedFor = "Docker"

\* C20: under structured output, when adapter Push succeeded and SetRunMode
\* fails, the store error is returned to the caller with no ReportError and no
\* exit: the event sink and exit 1 are used only for failures that come before
\* the run mode is persisted.
C20_StoreErrorNotDiverted ==
    (verb = "push" /\ isJSON) =>
        /\ \A i \in CallsOf("SetRunMode") :
              trace[i].res # <<>> =>
                  /\ PushSucceeded
                  /\ pc = "returned" /\ ret = trace[i].res
                  /\ Count("ReportError") = 0 /\ Count("os.Exit") = 0
                  /\ exitCode = -1
        /\ \A i \in CallsOf("ReportError") :
              /\ Count("SetRunMode") = 0
              /\ PushFailed
              /\ pc = "exited"

C20_Witness ==
    /\ verb = "push" /\ isJSON /\ pc = "returned" /\ exitCode = -1
    /\ PushSucceeded
    /\ ret = <<"cannot write env.yaml">>
    /\ Count("ReportError") = 0


\* the calls of ListURLs that returned an error
FailedListURLs == {i \in CallsOf("ListURLs") : trace[i].res # Nil}

\* C21: when ListURLs fails in a push, the adapter was constructed before it,
\* the call is the last collaborator call of devfilePushInner (no adapter Push,
\* no URL warning, no success line, no SetRunMode and no run mode), and the
\* invocation fails with the ListURLs error as it is: returned to the caller,
\* or under structured output reported to the event sink before exit 1.
C21_ListURLsFailureAborts ==
    \A i \in FailedListURLs :
        /\ verb = "push"
        /\ \E j \in 1..(i - 1) :
              trace[j].fn = "NewComponentAdapter" /\ trace[j].res = Nil
        /\ Count("Push") = 0
        /\ Count("log.Warningf") = 0
        /\ Count("log.Infof") = 0 /\ Count("log.Success") = 0
        /\ Count("SetRunMode") = 0 /\ runMode = ""
        /\ pc = "push_inner_done" => err = trace[i].res
        /\ pc = "returned" => (~isJSON /\ ret = trace[i].res /\ exitCode = -1)
        /\ pc = "exited" =>
              /\ isJSON /\ exitCode = 1
              /\ \E k \in CallsOf("ReportError") :
                    k > i /\ trace[k].arg.err = trace[i].res
        /\ pc \in {"push_inner_done", "returned", "exited"}

C21_Witness ==
    /\ verb = "push" /\ pc = "returned"
    /\ FailedListURLs # {}
    /\ ret = <<"cannot read env.yaml">>
    /\ Count("NewComponentAdapter") = 1
    /\ Count("Push") = 0


\* an invocation has started
Invoked == pc # "idle"

\* terminal state Succeeded: the verb returned nil to its caller
Succeeded == pc = "returned" /\ ret = Nil /\ exitCode = -1

\* terminal state Failed: the verb returned an error, or the process exited
\* with a non-zero status
Failed ==
    \/ pc = "returned" /\ ret # Nil /\ exitCode = -1
    \/ pc = "exited" /\ exitCode = 1 /\ ret = Nil

\* C22: when every collaborator call returns, every invocation of push, log,
\* delete, exec or test eventually reaches a terminal state; a terminal state
\* is exactly one of Succeeded and Failed (by returned error or by exit 1),
\* and nothing happens after it, so the outcome never changes.
C22_EveryInvocationTerminates ==
    /\ Invoked ~> Done
    /\ [](Done => (Succeeded # Failed))
    /\ [](~Done => ~(Succeeded \/ Failed))
    /\ [][Succeeded => Succeeded']_vars
    /\ [][Failed => Failed']_vars

C22_Witness ==
    /\ verb = "log" /\ Done /\ Failed
    /\ pc = "exited"
    /\ Count("NewComponentAdapter") = 1 /\ Count("Log") = 1

====
